---------------------------- MODULE Spec2Model ----------------------------
(***************************************************************************)
(* Reward evaluation and constrained goal sampling of two Sawyer tasks:    *)
(*   SawyerBasketballEnvV2  (sawyer_basketball_v2.py)                      *)
(*   SawyerReachWallEnvV2   (sawyer_reach_wall_v2.py)                      *)
(*                                                                         *)
(* Number representation.                                                  *)
(*   - A length is an integer number of millimetres (0.15 -> 150).  The    *)
(*     sub-millimetre widths of the boxes (0.0299..0.0301, 0.9 + 1e-7)     *)
(*     collapse to the one millimetre value they contain.                  *)
(*   - np.linalg.norm(v) is carried as its exact square, Norm2(v); an      *)
(*     order comparison of a norm with a radius r is made on the squares   *)
(*     (DistLt, DistLe), which is the same comparison for non-negative     *)
(*     reals.  The square root itself is taken (rounded) only inside the   *)
(*     smooth shaping curves.                                              *)
(*   - A reward or score is a fixed-point integer in thousandths           *)
(*     (1.0 -> 1000, 10.0 -> 10000).                                       *)
(***************************************************************************)
EXTENDS Integers, Sequences, FiniteSets

VARIABLES
    task,            \* which class the instance is
    pc,              \* "idle", or "reset_model" while inside the rejection loop
    _target_pos,     \* self._target_pos (None until a reset sets it)
    obj_init_pos,    \* self.obj_init_pos
    obj_init_angle,  \* self.obj_init_angle
    hand_init_pos,   \* self.hand_init_pos
    goal_pos,        \* the random vector held by reset_model (local goal_pos)
    basket_goal_pos, \* self.model.body("basket_goal").pos (basketball)
    site_goal_pos,   \* self.model.site("goal").pos
    obj_xyz,         \* the object position written by _set_obj_xyz
    ret              \* what the last call returned or raised, with its arguments

vars == <<task, pc, _target_pos, obj_init_pos, obj_init_angle, hand_init_pos,
          goal_pos, basket_goal_pos, site_goal_pos, obj_xyz, ret>>

\* The episode state reset_model establishes and the reward reads.
episode == <<_target_pos, obj_init_pos, obj_init_angle, hand_init_pos>>

\* Python's None, for a position that is not set.
None == <<>>

\* How many intervals each axis of the random-reset box is cut into.
GridSteps == 1

------------------------------------------------------------------------------
(* Vectors and norms *)

Vec(x, y, z) == <<x, y, z>>

VAdd(a, b) == <<a[1] + b[1], a[2] + b[2], a[3] + b[3]>>

VSub(a, b) == <<a[1] - b[1], a[2] - b[2], a[3] - b[3]>>

\* Square of np.linalg.norm of a 3-vector.
Norm2(v) == v[1] * v[1] + v[2] * v[2] + v[3] * v[3]

\* Square of np.linalg.norm(a[:2] - b[:2]).
PlanarNorm2(a, b) == (a[1] - b[1]) * (a[1] - b[1]) + (a[2] - b[2]) * (a[2] - b[2])

\* norm < r and norm <= r, for a norm given by its square d2 and r >= 0.
DistLt(d2, r) == d2 < r * r

DistLe(d2, r) == d2 <= r * r

RECURSIVE SqrtIter(_, _)
SqrtIter(n, x) ==
    LET y == (x + n \div x) \div 2
    IN  IF y >= x THEN x ELSE SqrtIter(n, y)

\* Largest r with r*r <= n.
FloorSqrt(n) == IF n = 0 THEN 0 ELSE SqrtIter(n, n)

\* Smallest r with r*r >= n.
CeilSqrt(n) == LET r == FloorSqrt(n) IN IF r * r = n THEN r ELSE r + 1

------------------------------------------------------------------------------
(* Task configuration (__init__) *)

TARGET_RADIUS == 80

\* Success radius of the reach-wall task (bounds=(0, 0.05), tcp_to_object <= 0.05).
ReachRadius == 50

\* The planar separation below which reset_model draws again.
MinSeparation == 150

obj_low ==
    IF task = "basketball" THEN Vec(-100, 600, 30) ELSE Vec(-50, 600, 15)

obj_high ==
    IF task = "basketball" THEN Vec(100, 700, 30) ELSE Vec(50, 650, 15)

goal_low ==
    IF task = "basketball" THEN Vec(-100, 850, 0) ELSE Vec(-50, 850, 50)

goal_high ==
    IF task = "basketball" THEN Vec(100, 900, 0) ELSE Vec(50, 900, 300)

\* self.goal
goal == IF task = "basketball" THEN Vec(0, 900, 0) ELSE Vec(-50, 800, 200)

\* Offset of the "goal" site from the basket body, as goal_space places it.
GoalSiteOffset == Vec(0, -83, 250)

init_config ==
    IF task = "basketball"
    THEN [obj_init_angle |-> 300, obj_init_pos |-> Vec(0, 600, 30),
          hand_init_pos |-> Vec(0, 600, 200)]
    ELSE [obj_init_angle |-> 300, obj_init_pos |-> Vec(0, 600, 20),
          hand_init_pos |-> Vec(0, 600, 200)]

------------------------------------------------------------------------------
(* The random-reset space and the rejection test *)

\* The sampled values of one axis: its ends and GridSteps - 1 points between.
Axis(lo, hi) == {lo + (k * (hi - lo)) \div GridSteps : k \in 0..GridSteps}

\* _random_reset_space = Box(hstack((obj_low, goal_low)), hstack((obj_high, goal_high)))
RandomResetSpace ==
    {<<ox, oy, oz, gx, gy, gz>> :
        ox \in Axis(obj_low[1], obj_high[1]),
        oy \in Axis(obj_low[2], obj_high[2]),
        oz \in Axis(obj_low[3], obj_high[3]),
        gx \in Axis(goal_low[1], goal_high[1]),
        gy \in Axis(goal_low[2], goal_high[2]),
        gz \in Axis(goal_low[3], goal_high[3])}

\* The vectors self._get_state_rand_vec() can return: the points of the
\* random-reset box.
_get_state_rand_vec == RandomResetSpace

\* goal_pos[:3] and goal_pos[3:] (the same slice as goal_pos[-3:]).
ObjPart(v) == <<v[1], v[2], v[3]>>

GoalPart(v) == <<v[4], v[5], v[6]>>

\* Variant: the while condition with its comparison turned round (>= 0.15).
Rejected_when_separated(v) ==
    ~DistLt(PlanarNorm2(ObjPart(v), GoalPart(v)), MinSeparation)

\* The while condition: np.linalg.norm(goal_pos[:2] - goal_pos[3:][:2]) < 0.15
Rejected(v) == DistLt(PlanarNorm2(ObjPart(v), GoalPart(v)), MinSeparation)

\* self.data.site("goal").xpos for a basket body placed at basket_pos.
SiteGoalXpos(basket_pos) == VAdd(basket_pos, GoalSiteOffset)

------------------------------------------------------------------------------
(* Construction *)

\* self._target_pos as the base class constructor leaves it.
UnsetTargetPos == None

Init ==
    /\ task \in {"basketball", "reach_wall"}
    /\ pc = "idle"
    /\ _target_pos = UnsetTargetPos
    /\ obj_init_pos = init_config.obj_init_pos
    /\ obj_init_angle = init_config.obj_init_angle
    /\ hand_init_pos = init_config.hand_init_pos
    /\ goal_pos = None
    /\ basket_goal_pos = None
    /\ site_goal_pos = None
    /\ obj_xyz = None
    /\ ret = [call |-> "__init__"]

------------------------------------------------------------------------------
(* reset_model *)

\* Variant: the object position taken from the goal half of the draw.
Basketball_commit_from_goal_half(v) == <<v[4], v[5], obj_init_pos[3]>>

\* What the basketball reset commits once a draw v is accepted.
Basketball_commit_obj_init_pos(v) == <<v[1], v[2], obj_init_pos[3]>>

\* Entry of reset_model up to the first draw.
Basketball_reset_begin ==
    /\ task = "basketball"
    /\ pc = "idle"
    /\ \E v \in _get_state_rand_vec : goal_pos' = v
    /\ pc' = "reset_model"
    /\ ret' = [call |-> "reset_model", done |-> FALSE]
    /\ UNCHANGED <<task, episode, basket_goal_pos, site_goal_pos, obj_xyz>>

\* One test of the while condition: draw again, or leave the loop and commit.
Basketball_reset_loop ==
    /\ task = "basketball"
    /\ pc = "reset_model"
    /\ IF Rejected(goal_pos)
       THEN /\ \E v \in _get_state_rand_vec : goal_pos' = v
            /\ UNCHANGED <<pc, episode, basket_goal_pos, site_goal_pos, obj_xyz, ret>>
       ELSE /\ obj_init_pos' = Basketball_commit_obj_init_pos(goal_pos)
            /\ basket_goal_pos' = GoalPart(goal_pos)
            /\ _target_pos' = SiteGoalXpos(GoalPart(goal_pos))
            /\ obj_xyz' = obj_init_pos'
            /\ site_goal_pos' = _target_pos'
            /\ pc' = "idle"
            /\ ret' = [call |-> "reset_model", done |-> TRUE]
            /\ UNCHANGED <<goal_pos, obj_init_angle, hand_init_pos>>
    /\ UNCHANGED task

\* What the reach-wall reset commits once a draw v is accepted.
ReachWall_commit_obj_init_pos(v) == ObjPart(v)

\* Entry of reset_model up to the first draw.
ReachWall_reset_begin ==
    /\ task = "reach_wall"
    /\ pc = "idle"
    /\ obj_init_angle' = init_config.obj_init_angle
    /\ \E v \in _get_state_rand_vec :
          /\ goal_pos' = v
          /\ _target_pos' = GoalPart(v)
    /\ pc' = "reset_model"
    /\ ret' = [call |-> "reset_model", done |-> FALSE]
    /\ UNCHANGED <<task, obj_init_pos, hand_init_pos, basket_goal_pos,
                   site_goal_pos, obj_xyz>>

\* One test of the while condition: draw again, or leave the loop and commit.
ReachWall_reset_loop ==
    /\ task = "reach_wall"
    /\ pc = "reset_model"
    /\ IF Rejected(goal_pos)
       THEN /\ \E v \in _get_state_rand_vec :
                  /\ goal_pos' = v
                  /\ _target_pos' = GoalPart(v)
            /\ UNCHANGED <<pc, obj_init_pos, obj_init_angle, hand_init_pos,
                           site_goal_pos, obj_xyz, ret>>
       ELSE /\ _target_pos' = GoalPart(goal_pos)
            /\ obj_init_pos' = ReachWall_commit_obj_init_pos(goal_pos)
            /\ obj_xyz' = obj_init_pos'
            /\ site_goal_pos' = _target_pos'
            /\ pc' = "idle"
            /\ ret' = [call |-> "reset_model", done |-> TRUE]
            /\ UNCHANGED <<goal_pos, obj_init_angle, hand_init_pos>>
    /\ UNCHANGED <<task, basket_goal_pos>>

------------------------------------------------------------------------------
(* reward_utils, numpy *)

\* float(b) of a boolean.
Float(b) == IF b THEN 1000 ELSE 0

\* reward_utils.tolerance(x, bounds=(lo, hi), margin, sigmoid="long_tail"):
\* 1.0 inside the band; outside it 1 / ((3 d)^2 + 1) with d the distance past
\* the nearer bound over the margin, and a step when the margin is 0.
\* x and the margin are given by their squares.
tolerance(x2, lo, hi, margin2) ==
    LET in_bounds == lo * lo <= x2 /\ x2 <= hi * hi
        x == CeilSqrt(x2)
        d == IF x2 < lo * lo THEN lo - FloorSqrt(x2) ELSE x - hi
    IN  IF in_bounds THEN 1000
        ELSE IF margin2 = 0 THEN 0
        ELSE (1000 * margin2) \div (9 * d * d + margin2)

\* reward_utils.hamacher_product(a, b) = a b / (a + b - a b), 0 when that
\* denominator is not positive.
hamacher_product(a, b) ==
    LET denominator == 1000 * (a + b) - a * b
    IN  IF denominator > 0 THEN (a * b * 1000) \div denominator ELSE 0

\* np.exp(-d / 0.2) of a norm given by its square: halves every 0.2 ln 2
\* (139 mm), linear between the halvings.
ExpNegOver200(d2) ==
    LET d == FloorSqrt(d2)
        k == d \div 139
        r == d % 139
    IN  ((1000 * (278 - r)) \div 278) \div (2 ^ k)

\* The values self._gripper_caging_reward(...) is taken to return.
CagingValues == {0, 400, 1000}

------------------------------------------------------------------------------
(* SawyerBasketballEnvV2.compute_reward / evaluate_state *)

\* Variant: an assertion that tests the object initial position only.
Basketball_assert_obj_only == obj_init_pos # None

\* The assertion that opens compute_reward.
Basketball_assert_reset == _target_pos # None /\ obj_init_pos # None

\* target = self._target_pos.copy(); target[2] = 0.3
Basketball_target == [_target_pos EXCEPT ![3] = 300]

\* Variant: target[2] = 0.3 written through to self._target_pos (no copy).
Basketball_target_pos_forced_in_place == Basketball_target

\* self._target_pos once compute_reward has run: the forced z went to a copy.
Basketball_target_pos_after_compute == _target_pos

\* (v) * scale with scale = [1.0, 1.0, 2.0]
ScaleZ(v) == <<v[1], v[2], 2 * v[3]>>

\* The condition under which the caging reward is replaced by 1.0.
Basketball_grasp_override(obj, tcp_opened, tcp_to_obj) ==
    /\ DistLt(tcp_to_obj, 35)
    /\ tcp_opened > 0
    /\ obj[3] - 10 > obj_init_pos[3]

\* Variant: the bonus condition without the gripper-open test.
Basketball_grasp_bonus_any_gripper(obj, tcp_opened, tcp_to_obj) ==
    /\ DistLt(tcp_to_obj, 35)
    /\ obj[3] - 10 > obj_init_pos[3]

\* The condition under which 1.0 + 5.0 * in_place is added.
Basketball_grasp_bonus(obj, tcp_opened, tcp_to_obj) ==
    /\ DistLt(tcp_to_obj, 35)
    /\ tcp_opened > 0
    /\ obj[3] - 10 > obj_init_pos[3]

\* Variant: the terminal override taken at the radius too (<=).
Basketball_in_target_inclusive(target_to_obj) ==
    DistLe(target_to_obj, TARGET_RADIUS)

\* The terminal override test.
Basketball_in_target(target_to_obj) == DistLt(target_to_obj, TARGET_RADIUS)

\* The tuple compute_reward returns (past its assertion).
Basketball_compute_reward(obj, tcp_opened, tcp_center, caging) ==
    LET target == Basketball_target
        target_to_obj == Norm2(ScaleZ(VSub(obj, target)))
        target_to_obj_init == Norm2(ScaleZ(VSub(obj_init_pos, target)))
        in_place == tolerance(target_to_obj, 0, TARGET_RADIUS, target_to_obj_init)
        tcp_to_obj == Norm2(VSub(obj, tcp_center))
        object_grasped ==
            IF Basketball_grasp_override(obj, tcp_opened, tcp_to_obj)
            THEN 1000 ELSE caging
        shaped == hamacher_product(object_grasped, in_place)
                    + ExpNegOver200(tcp_to_obj)
        bonused ==
            IF Basketball_grasp_bonus(obj, tcp_opened, tcp_to_obj)
            THEN shaped + 1000 + 5 * in_place ELSE shaped
        reward == IF Basketball_in_target(target_to_obj) THEN 10000 ELSE bonused
    IN  [reward |-> reward, tcp_to_obj |-> tcp_to_obj, tcp_open |-> tcp_opened,
         obj_to_target |-> target_to_obj, grasp_reward |-> object_grasped,
         in_place_reward |-> in_place]

\* Variant: success taken strictly inside the radius (<).
Basketball_success_strict(obj_to_target) ==
    Float(DistLt(obj_to_target, TARGET_RADIUS))

\* info["success"]
Basketball_success(obj_to_target) == Float(DistLe(obj_to_target, TARGET_RADIUS))

\* Variant: grasp_success with the lift test taken as >=.
Basketball_grasp_success_at_threshold(obj, tcp_open) ==
    Float(tcp_open > 0 /\ obj[3] - 30 >= obj_init_pos[3])

\* info["grasp_success"]
Basketball_grasp_success(obj, tcp_open) ==
    Float(tcp_open > 0 /\ obj[3] - 30 > obj_init_pos[3])

\* What evaluate_state(obs, action) returns or raises.
Basketball_evaluate_result(obj, tcp_opened, tcp_center, caging) ==
    LET args == [obj |-> obj, tcp_opened |-> tcp_opened,
                 tcp_center |-> tcp_center, caging |-> caging]
    IN  IF ~Basketball_assert_reset
        THEN [call |-> "evaluate_state", raised |-> "AssertionError",
              args |-> args]
        ELSE IF _target_pos = None
        THEN [call |-> "evaluate_state", raised |-> "AttributeError",
              args |-> args]
        ELSE LET r == Basketball_compute_reward(obj, tcp_opened, tcp_center, caging)
             IN  [call |-> "evaluate_state", raised |-> "none",
                  reward |-> r.reward,
                  info |-> [success |-> Basketball_success(r.obj_to_target),
                            near_object |-> Float(DistLe(r.tcp_to_obj, 50)),
                            grasp_success |-> Basketball_grasp_success(obj, r.tcp_open),
                            grasp_reward |-> r.grasp_reward,
                            in_place_reward |-> r.in_place_reward,
                            obj_to_target |-> r.obj_to_target,
                            unscaled_reward |-> r.reward],
                  args |-> args]

\* The object positions (obs[4:7]) evaluate_state is called with.
Basketball_obj_inputs ==
    {VAdd(obj_init_pos, Vec(0, 0, dz)) : dz \in {0, 10, 11, 30, 50}}
      \cup (IF _target_pos = None THEN {}
            ELSE {VAdd(Basketball_target, off) :
                    off \in {Vec(0, 0, 0), Vec(80, 0, 0), Vec(0, 0, 40), Vec(81, 0, 0)}})

\* The tool-center-point positions (self.tcp_center) it is called at.
Basketball_tcp_inputs(obj) ==
    {VAdd(obj, Vec(dx, 0, 0)) : dx \in {0, 35}} \cup {hand_init_pos}

\* The gripper-open amounts (obs[3]).
TcpOpenedInputs == {0, 500}

Basketball_evaluate_state ==
    /\ task = "basketball"
    /\ pc = "idle"
    /\ \E obj \in Basketball_obj_inputs, tcp_opened \in TcpOpenedInputs,
          caging \in CagingValues :
          \E tcp_center \in Basketball_tcp_inputs(obj) :
             ret' = Basketball_evaluate_result(obj, tcp_opened, tcp_center, caging)
    /\ _target_pos' = IF _target_pos = None THEN None
                      ELSE Basketball_target_pos_after_compute
    /\ UNCHANGED <<task, pc, obj_init_pos, obj_init_angle, hand_init_pos, goal_pos,
                   basket_goal_pos, site_goal_pos, obj_xyz>>

------------------------------------------------------------------------------
(* SawyerReachWallEnvV2.compute_reward / evaluate_state *)

\* The assertion that opens compute_reward.
ReachWall_assert_reset == _target_pos # None /\ obj_init_pos # None

\* self._target_pos once compute_reward has run.
ReachWall_target_pos_after_compute == _target_pos

\* The reward: 10 * in_place.
ReachWall_reward(in_place) == 10 * in_place

\* The tuple compute_reward returns (past its assertion).
ReachWall_compute_reward(tcp) ==
    LET target == _target_pos
        tcp_to_target == Norm2(VSub(tcp, target))
        in_place_margin == Norm2(VSub(hand_init_pos, target))
        in_place == tolerance(tcp_to_target, 0, ReachRadius, in_place_margin)
    IN  [reward |-> ReachWall_reward(in_place), tcp_to_target |-> tcp_to_target,
         in_place |-> in_place]

\* info["success"]
ReachWall_success(tcp_to_object) == Float(DistLe(tcp_to_object, ReachRadius))

\* What evaluate_state(obs, action) returns or raises.
ReachWall_evaluate_result(tcp_center) ==
    LET args == [obj |-> None, tcp_opened |-> None,
                 tcp_center |-> tcp_center, caging |-> None]
    IN  IF ~ReachWall_assert_reset
        THEN [call |-> "evaluate_state", raised |-> "AssertionError",
              args |-> args]
        ELSE IF _target_pos = None
        THEN [call |-> "evaluate_state", raised |-> "TypeError",
              args |-> args]
        ELSE LET r == ReachWall_compute_reward(tcp_center)
             IN  [call |-> "evaluate_state", raised |-> "none",
                  reward |-> r.reward,
                  info |-> [success |-> ReachWall_success(r.tcp_to_target),
                            near_object |-> 0,
                            grasp_success |-> 0,
                            grasp_reward |-> 0,
                            in_place_reward |-> r.in_place,
                            obj_to_target |-> r.tcp_to_target,
                            unscaled_reward |-> r.reward],
                  args |-> args]

\* The tool-center-point positions (self.tcp_center) it is called at.
ReachWall_tcp_inputs ==
    {hand_init_pos, obj_init_pos}
      \cup (IF _target_pos = None THEN {}
            ELSE {VAdd(_target_pos, off) :
                    off \in {Vec(0, 0, 0), Vec(50, 0, 0), Vec(30, 40, 0),
                             Vec(51, 0, 0), Vec(0, 0, 120)}})

ReachWall_evaluate_state ==
    /\ task = "reach_wall"
    /\ pc = "idle"
    /\ \E tcp_center \in ReachWall_tcp_inputs :
          ret' = ReachWall_evaluate_result(tcp_center)
    /\ _target_pos' = IF _target_pos = None THEN None
                      ELSE ReachWall_target_pos_after_compute
    /\ UNCHANGED <<task, pc, obj_init_pos, obj_init_angle, hand_init_pos, goal_pos,
                   basket_goal_pos, site_goal_pos, obj_xyz>>

------------------------------------------------------------------------------

Next ==
    \/ Basketball_reset_begin
    \/ Basketball_reset_loop
    \/ ReachWall_reset_begin
    \/ ReachWall_reset_loop
    \/ Basketball_evaluate_state
    \/ ReachWall_evaluate_state

Spec == Init /\ [][Next]_vars

\* reset_model is one running call: once inside its loop it takes the next step.
FairSpec ==
    /\ Init
    /\ [][Next]_vars
    /\ WF_vars(Basketball_reset_loop)
    /\ WF_vars(ReachWall_reset_loop)

------------------------------------------------------------------------------
(* Properties *)

\* The last call was an evaluate_state that returned (reward, info).
Evaluated == ret.call = "evaluate_state" /\ ret.raised = "none"

\* The last call was a reset_model that returned its observation.
ResetReturned == pc = "idle" /\ ret.call = "reset_model" /\ ret.done

\* The task's success radius.
SuccessRadius == IF task = "basketball" THEN TARGET_RADIUS ELSE ReachRadius

\* C1: whenever the reported distance to the target is <= the success radius
\* (the radius itself included), the returned reward is exactly 10.0.
C1_RewardCeiling ==
    (Evaluated /\ ret.info.obj_to_target <= SuccessRadius * SuccessRadius)
        => ret.reward = 10000

\* The committed goal position the object must be kept away from.
CommittedGoal == IF task = "basketball" THEN basket_goal_pos ELSE _target_pos

\* C2: once a reset has returned, the accepted draw's object part and goal part
\* are at planar distance >= 0.15, and so are the committed object initial
\* position and goal position.
C2_MinSeparation ==
    ResetReturned =>
        /\ PlanarNorm2(ObjPart(goal_pos), GoalPart(goal_pos)) >= 150 * 150
        /\ PlanarNorm2(obj_init_pos, CommittedGoal) >= 150 * 150

\* A reset accepted a pair at exactly the minimum separation.
C2_Witness ==
    /\ ResetReturned
    /\ task = "basketball"
    /\ PlanarNorm2(obj_init_pos, CommittedGoal) = 150 * 150

C4_SuccessFlag ==
    Evaluated =>
        /\ ret.info.success =
              (IF ret.info.obj_to_target <= SuccessRadius * SuccessRadius
               THEN 1000 ELSE 0)
        /\ DOMAIN ret.info = {"success", "near_object", "grasp_success",
                              "grasp_reward", "in_place_reward", "obj_to_target",
                              "unscaled_reward"}
        /\ ret.info.unscaled_reward = ret.reward

\* An evaluation at exactly the success radius reported success.
C4_Witness ==
    /\ Evaluated
    /\ ret.info.obj_to_target = SuccessRadius * SuccessRadius
    /\ ret.info.success = 1000

\* C5: a reset_model that has entered its rejection loop returns.
C5_SamplerTerminates == (pc = "reset_model") ~> ResetReturned

\* A reset_model that went through the loop test has returned, on either task.
C5_Witness ==
    /\ ResetReturned
    /\ task = "reach_wall"
    /\ ~Rejected(goal_pos)

\* C7: (basketball) grasp_success is 1.0 exactly when gripper-open > 0 and the
\* object is more than 0.03 above its initial height, and 0.0 otherwise.
C7_GraspSuccess ==
    (Evaluated /\ task = "basketball") =>
        ret.info.grasp_success =
            (IF ret.args.tcp_opened > 0 /\ ret.args.obj[3] > obj_init_pos[3] + 30
             THEN 1000 ELSE 0)

\* The example: object and tcp coincident, gripper open, object 0.05 above an
\* initial height of 0.03, grasp_success 1.0.
C7_Witness ==
    /\ Evaluated
    /\ task = "basketball"
    /\ ret.args.obj = ret.args.tcp_center
    /\ ret.args.tcp_opened > 0
    /\ obj_init_pos[3] = 30
    /\ ret.args.obj[3] = obj_init_pos[3] + 50
    /\ ret.info.grasp_success = 1000

\* The three grasp-confirmation conditions, on the arguments of the last call.
GraspConfirmed ==
    /\ Norm2(VSub(ret.args.obj, ret.args.tcp_center)) < 35 * 35
    /\ ret.args.tcp_opened > 0
    /\ ret.args.obj[3] > obj_init_pos[3] + 10

\* The last call's object was not strictly inside the terminal radius.
OutsideTerminal == ret.info.obj_to_target >= 80 * 80

\* C8: (basketball) with the three conditions met the grasp quality is 1.0 and,
\* outside the terminal radius, the reward is
\* hamacher(1.0, in_place) + exp(-tcp_to_obj/0.2) + 1.0 + 5.0 in_place;
\* otherwise the grasp quality is the caging reward and no bonus is added.
C8_GraspOverride ==
    (Evaluated /\ task = "basketball") =>
        LET in_place == ret.info.in_place_reward
            bonus == ExpNegOver200(Norm2(VSub(ret.args.obj, ret.args.tcp_center)))
        IN  IF GraspConfirmed
            THEN /\ ret.info.grasp_reward = 1000
                 /\ OutsideTerminal =>
                       ret.reward = hamacher_product(1000, in_place) + bonus
                                      + 1000 + 5 * in_place
            ELSE /\ ret.info.grasp_reward = ret.args.caging
                 /\ OutsideTerminal =>
                       ret.reward = hamacher_product(ret.args.caging, in_place) + bonus

\* A confirmed grasp replaced a lower caging reward, outside the terminal radius.
C8_Witness ==
    /\ Evaluated
    /\ task = "basketball"
    /\ GraspConfirmed
    /\ OutsideTerminal
    /\ ret.args.caging < 1000
    /\ ret.info.grasp_reward = 1000

\* C9: a step that is an evaluate_state leaves the target position, the object
\* initial position, the object initial angle and the hand initial position as
\* they were, and the stored result is what the same arguments yield now.
C9_EvaluateFrame ==
    /\ [][ret'.call = "evaluate_state" => episode' = episode]_vars
    /\ [](Evaluated =>
            ret = (IF task = "basketball"
                   THEN Basketball_evaluate_result(ret.args.obj, ret.args.tcp_opened,
                                                   ret.args.tcp_center, ret.args.caging)
                   ELSE ReachWall_evaluate_result(ret.args.tcp_center)))

\* A basketball evaluation returned while the committed target z is not 0.3.
C9_Witness ==
    /\ Evaluated
    /\ task = "basketball"
    /\ _target_pos[3] # 300
    /\ Basketball_target[3] = 300

\* C10: every returned reward lies in [0, 10.0]; basketball returns 10.0 only
\* strictly inside TARGET_RADIUS and at most 8.0 elsewhere; reach-wall returns
\* 10 * in_place.
C10_RewardRange ==
    Evaluated =>
        /\ 0 <= ret.reward /\ ret.reward <= 10000
        /\ task = "basketball" =>
              /\ ret.reward = 10000 => ret.info.obj_to_target < 80 * 80
              /\ ret.info.obj_to_target >= 80 * 80 => ret.reward <= 8000
        /\ task = "reach_wall" => ret.reward = 10 * ret.info.in_place_reward

\* The largest non-terminal basketball reward, 8.0, at exactly TARGET_RADIUS.
C10_Witness ==
    /\ Evaluated
    /\ task = "basketball"
    /\ ret.info.obj_to_target = 80 * 80
    /\ ret.reward = 8000

==============================================================================
